---- MODULE Spec2Model ----
(***************************************************************************)
(* TRUIDA: biometric enrollment, checkpoint verification and record        *)
(* lifecycle over the browser's localStorage.                              *)
(*                                                                         *)
(* Sources: the data store (savePassengerData, findPassengersByBiometrics, *)
(* updateCheckpointStatus, deletePassengerData, clearAllPassengerData,     *)
(* cleanupExpiredPassengers, logCheckpointAccess), biometric-utils.ts      *)
(* (calculateFaceSimilarity, verifyBiometricMatch, isFlightValid),         *)
(* CheckpointStation.tsx (processVerification), EnrollmentStation.tsx      *)
(* (completeEnrollment), StaffDashboard.tsx (handleCleanup,                *)
(* handleClearAll) and Index.tsx.                                          *)
(***************************************************************************)
EXTENDS Integers, Sequences, FiniteSets, TLC

(***************************************************************************)
(* Bounds of the model.                                                    *)
(***************************************************************************)
\* last instant of the clock explored
MaxNow == 1
\* entries the access log may hold before a grant
MaxLog == 3
\* longest vector given to calculateFaceSimilarity on its own
MaxDim == 2
\* entries the access log holds at most when the dashboard is modelled
MaxEntries == 11
\* fingerprint uploads the enrollment station has in progress at most
MaxUploads == 2

(***************************************************************************)
(* Input domains.                                                          *)
(***************************************************************************)
Checkpoints == {"security", "immigration", "boarding"}
\* the values crypto.randomUUID() gives generatePassengerId, in order
PassengerUuids == <<"u1", "u2">>
\* face hashes of the enrolled faces, and of the faces presented at a station
FaceHashes == {"h1", "h2"}
PresentedFaceHashes == {"h1", "h2"}
\* the fingerprint hash of the n-th person enrolled
FingerprintHashes == <<"f1", "f2">>
\* an omitted optional argument
Undefined == "undefined"
\* the stations omit fingerprintHash; "f1" is a fingerprint supplied
PresentedFingerprints == {Undefined, "f1"}
\* embeddings are vectors of numbers; two components stand for the 384
StoredEmbeddings == {<<1, 0>>, <<1, 1>>}
PresentedEmbeddings == {<<1, 0>>}
\* departureTime is the text of a datetime-local input: <<>> is the empty
\* text, <<t>> the text of instant t
DepartureTimes == {<<>>, <<1>>, <<2>>}

\* JavaScript truthiness of an optional string
Truthy(s) == s /= Undefined /\ s /= ""

(***************************************************************************)
(* Numbers that may be NaN: new Date(text).getTime() and cosine values.    *)
(***************************************************************************)
\* new Date(departureTime): Invalid Date for text that does not parse
NewDate(text) ==
    IF Len(text) = 0 THEN [nan |-> TRUE, t |-> 0] ELSE [nan |-> FALSE, t |-> text[1]]

\* date > now in JavaScript: every comparison with NaN is false
DateGT(date, now_) == ~date.nan /\ date.t > now_

\* A similarity is dot / sqrt(nn), kept exact as the pair (dot, nn); nan
\* marks 0/0.
Sim(dot, nn) == [nan |-> FALSE, dot |-> dot, nn |-> nn]

SimNaN == [nan |-> TRUE, dot |-> 0, nn |-> 0]

SimZero == Sim(0, 1)

\* a > b on similarities (false when either is NaN)
SimGT(a, b) ==
    /\ ~a.nan
    /\ ~b.nan
    /\ IF a.dot > 0
       THEN b.dot <= 0 \/ a.dot * a.dot * b.nn > b.dot * b.dot * a.nn
       ELSE b.dot < 0 /\ a.dot * a.dot * b.nn < b.dot * b.dot * a.nn

SimEQ(a, b) == ~a.nan /\ ~b.nan /\ ~SimGT(a, b) /\ ~SimGT(b, a)

(***************************************************************************)
(* biometric-utils.ts                                                      *)
(***************************************************************************)
RECURSIVE SumProd(_, _, _)
SumProd(a, b, i) == IF i = 0 THEN 0 ELSE a[i] * b[i] + SumProd(a, b, i - 1)

\* variant: no length test, the loop runs over the common prefix
calculateFaceSimilarity_CommonPrefix(embedding1, embedding2) ==
    LET n == IF Len(embedding1) < Len(embedding2) THEN Len(embedding1) ELSE Len(embedding2)
        dotProduct == SumProd(embedding1, embedding2, n)
        norm1 == SumProd(embedding1, embedding1, n)
        norm2 == SumProd(embedding2, embedding2, n)
    IN  IF norm1 * norm2 = 0 THEN SimNaN ELSE Sim(dotProduct, norm1 * norm2)

\* cosine similarity; 0 on a length mismatch; 0/0 is NaN
calculateFaceSimilarity(embedding1, embedding2) ==
    IF Len(embedding1) /= Len(embedding2) THEN SimZero
    ELSE LET dotProduct == SumProd(embedding1, embedding2, Len(embedding1))
             norm1 == SumProd(embedding1, embedding1, Len(embedding1))
             norm2 == SumProd(embedding2, embedding2, Len(embedding2))
         IN  IF norm1 * norm2 = 0 THEN SimNaN ELSE Sim(dotProduct, norm1 * norm2)

\* an optional embedding: <<>> when absent, <<vector>> when present
NoEmbedding == <<>>

HasEmbedding(opt) == Len(opt) > 0

verifyBiometricMatch(storedBiometrics, currentFaceHash, currentFingerprintHash, currentFaceEmbedding) ==
    [faceMatch |-> storedBiometrics.faceHash = currentFaceHash,
     fingerprintMatch |->
        IF Truthy(currentFingerprintHash)
        THEN storedBiometrics.fingerprintHash = currentFingerprintHash
        ELSE TRUE,
     similarity |->
        IF HasEmbedding(currentFaceEmbedding) /\ HasEmbedding(storedBiometrics.faceEmbedding)
        THEN calculateFaceSimilarity(storedBiometrics.faceEmbedding[1],
                                     currentFaceEmbedding[1])
        ELSE SimZero]

\* date >= now in JavaScript
DateGE(date, now_) == ~date.nan /\ date.t >= now_

\* variant: a flight leaving at this very instant still counts as valid
isFlightValid_AtDeparture(departureTime, now_) == DateGE(NewDate(departureTime), now_)

isFlightValid(departureTime, now_) == DateGT(NewDate(departureTime), now_)

\* Number.prototype.toFixed(1) of similarity * 100, in tenths of a percent:
\* the nearest tenth, halves away from zero
TenthsAtLeast(k, s) == k = 0 \/ (2 * k - 1) * (2 * k - 1) * s.nn <= 4000000 * s.dot * s.dot

RECURSIVE MaxTenths(_, _, _)
MaxTenths(lo, hi, s) ==
    IF lo = hi THEN lo
    ELSE LET mid == (lo + hi + 1) \div 2
         IN  IF TenthsAtLeast(mid, s) THEN MaxTenths(mid, hi, s) ELSE MaxTenths(lo, mid - 1, s)

toFixed1(s) ==
    IF s.nan THEN [nan |-> TRUE, tenths |-> 0]
    ELSE [nan |-> FALSE,
          tenths |-> IF s.dot >= 0 THEN MaxTenths(0, 1000, s) ELSE 0 - MaxTenths(0, 1000, s)]

(***************************************************************************)
(* The data store: two localStorage items, each absent or holding the JSON *)
(* text of an array.  The arrays hold strings, numbers and booleans only,  *)
(* which JSON.stringify / JSON.parse give back unchanged, so an item is    *)
(* kept as the array it parses to.                                         *)
(***************************************************************************)
STORAGE_KEY == "truida_passengers"

STAFF_STORAGE_KEY == "truida_staff_logs"

StorageKeys == {STORAGE_KEY, STAFF_STORAGE_KEY}

AbsentItem == [present |-> FALSE, value |-> <<>>]

EmptyStorage == [k \in StorageKeys |-> AbsentItem]

\* While an operation runs, the storage also counts, under "calls", the
\* setItem / removeItem calls the operation has made on each item.
Open(items) ==
    [k \in StorageKeys \cup {"calls"} |->
        IF k = "calls" THEN [j \in StorageKeys |-> 0] ELSE items[k]]

Items(ls) == [k \in StorageKeys |-> ls[k]]

setItem(ls, key, array) ==
    [ls EXCEPT ![key] = [present |-> TRUE, value |-> array],
               !["calls"] = [@ EXCEPT ![key] = @ + 1]]

removeItem(ls, key) ==
    [ls EXCEPT ![key] = AbsentItem, !["calls"] = [@ EXCEPT ![key] = @ + 1]]

\* data ? JSON.parse(data) : []
getAllPassengers(ls) == IF ls[STORAGE_KEY].present THEN ls[STORAGE_KEY].value ELSE <<>>

getStaffLogs(ls) == IF ls[STAFF_STORAGE_KEY].present THEN ls[STAFF_STORAGE_KEY].value ELSE <<>>

\* Array.prototype.filter is SelectSeq

\* Array.prototype.findIndex on p.id === id, 1-based; 0 stands for -1
FindIndexById(passengers, id) ==
    IF \E i \in 1..Len(passengers) : passengers[i].id = id
    THEN CHOOSE i \in 1..Len(passengers) :
            /\ passengers[i].id = id
            /\ \A j \in 1..(i - 1) : passengers[j].id /= id
    ELSE 0

\* variant: the record is pushed even when its id is already stored
savePassengerData_AlwaysPush(ls, passenger) ==
    setItem(ls, STORAGE_KEY, Append(getAllPassengers(ls), passenger))

\* the array savePassengerData writes: passenger replaces the record of its
\* id, or is pushed when there is none
PutPassenger(passengers, passenger) ==
    LET existingIndex == FindIndexById(passengers, passenger.id)
    IN  IF existingIndex > 0
        THEN [passengers EXCEPT ![existingIndex] = passenger]
        ELSE Append(passengers, passenger)

savePassengerData(ls, passenger) ==
    setItem(ls, STORAGE_KEY, PutPassenger(getAllPassengers(ls), passenger))

getPassengerById(ls, id) ==
    LET passengers == getAllPassengers(ls)
        i == FindIndexById(passengers, id)
    IN  IF i > 0 THEN <<passengers[i]>> ELSE <<>>

\* variant: the last record with the passport number is returned
getPassengerByPassport_Last(ls, passportNumber) ==
    LET passengers == getAllPassengers(ls)
        found == {i \in 1..Len(passengers) :
                     passengers[i].passportNumber = passportNumber}
    IN  IF found = {}
        THEN <<>>
        ELSE <<passengers[CHOOSE i \in found : \A j \in found : i >= j]>>

\* passengers.find(p => p.passportNumber === passportNumber) || null
getPassengerByPassport(ls, passportNumber) ==
    LET passengers == getAllPassengers(ls)
        found == {i \in 1..Len(passengers) :
                     passengers[i].passportNumber = passportNumber}
    IN  IF found = {}
        THEN <<>>
        ELSE <<passengers[CHOOSE i \in found : \A j \in found : i <= j]>>

\* variant: the face hash is not compared
findPassengersByBiometrics_AnyFace(ls, faceHash, fingerprintHash) ==
    LET Keep(p) ==
            IF Truthy(fingerprintHash)
            THEN p.biometrics.fingerprintHash = fingerprintHash
            ELSE TRUE
    IN  SelectSeq(getAllPassengers(ls), Keep)

findPassengersByBiometrics(ls, faceHash, fingerprintHash) ==
    LET Keep(p) ==
            /\ p.biometrics.faceHash = faceHash
            /\ IF Truthy(fingerprintHash)
               THEN p.biometrics.fingerprintHash = fingerprintHash
               ELSE TRUE
    IN  SelectSeq(getAllPassengers(ls), Keep)

\* variant: the checkpoints object is replaced instead of one flag being set
updateCheckpointStatus_ReplaceFlags(ls, passengerId, checkpoint, status) ==
    LET passengers == getAllPassengers(ls)
        i == FindIndexById(passengers, passengerId)
    IN  IF i = 0 THEN [ls |-> ls, ok |-> FALSE]
        ELSE [ls |-> savePassengerData(ls,
                        [passengers[i] EXCEPT !.checkpoints =
                            [c \in Checkpoints |-> IF c = checkpoint THEN status ELSE FALSE]]),
              ok |-> TRUE]

\* returns the storage and the boolean the function returns
updateCheckpointStatus(ls, passengerId, checkpoint, status) ==
    LET passengers == getAllPassengers(ls)
        i == FindIndexById(passengers, passengerId)
    IN  IF i = 0 THEN [ls |-> ls, ok |-> FALSE]
        ELSE [ls |-> savePassengerData(ls,
                        [passengers[i] EXCEPT !.checkpoints[checkpoint] = status]),
              ok |-> TRUE]

deletePassengerData(ls, passengerId) ==
    LET Keep(p) == p.id /= passengerId
    IN  [ls |-> setItem(ls, STORAGE_KEY, SelectSeq(getAllPassengers(ls), Keep)), ok |-> TRUE]

\* variant: the passenger item is left in place
clearAllPassengerData_LogsOnly(ls) == removeItem(ls, STAFF_STORAGE_KEY)

clearAllPassengerData(ls) == removeItem(removeItem(ls, STORAGE_KEY), STAFF_STORAGE_KEY)

\* variant: a record departing exactly now is kept
cleanupExpiredPassengers_KeepAtDeparture(ls, now_) ==
    LET passengers == getAllPassengers(ls)
        Keep(p) == DateGE(NewDate(p.departureTime), now_)
        activePassengers == SelectSeq(passengers, Keep)
    IN  [ls |-> setItem(ls, STORAGE_KEY, activePassengers),
         deletedCount |-> Len(passengers) - Len(activePassengers)]

\* variant: the records read are counted instead of the records removed
cleanupExpiredPassengers_CountsRead(ls, now_) ==
    LET passengers == getAllPassengers(ls)
        Keep(p) == DateGT(NewDate(p.departureTime), now_)
        activePassengers == SelectSeq(passengers, Keep)
    IN  [ls |-> setItem(ls, STORAGE_KEY, activePassengers),
         deletedCount |-> Len(passengers)]

\* returns the storage and deletedCount
cleanupExpiredPassengers(ls, now_) ==
    LET passengers == getAllPassengers(ls)
        Keep(p) == DateGT(NewDate(p.departureTime), now_)
        activePassengers == SelectSeq(passengers, Keep)
    IN  [ls |-> setItem(ls, STORAGE_KEY, activePassengers),
         deletedCount |-> Len(passengers) - Len(activePassengers)]

\* entry comes without id; uuid is the value crypto.randomUUID() returns
StaffLogEntry(entry, uuid) ==
    [id |-> uuid, passengerId |-> entry.passengerId, checkpoint |-> entry.checkpoint,
     timestamp |-> entry.timestamp, result |-> entry.result, staffId |-> entry.staffId,
     notes |-> entry.notes]

\* variant: the item is written with the new entry alone
logCheckpointAccess_Overwrites(ls, entry, uuid) ==
    setItem(ls, STAFF_STORAGE_KEY, <<StaffLogEntry(entry, uuid)>>)

logCheckpointAccess(ls, entry, uuid) ==
    setItem(ls, STAFF_STORAGE_KEY, Append(getStaffLogs(ls), StaffLogEntry(entry, uuid)))

\* 60 * 60 * 1000 milliseconds: one unit of the clock is one hour
OneHour == 1

\* entries of stats.recentActivity
RecentActivityCount == 10

\* array.slice(-n): the last n elements
SliceLast(array, n) ==
    SubSeq(array, IF Len(array) > n THEN Len(array) - n + 1 ELSE 1, Len(array))

\* Array.prototype.reverse
Reverse(array) == [i \in 1..Len(array) |-> array[Len(array) - i + 1]]

getTruidaStats(ls, now_) ==
    LET passengers == getAllPassengers(ls)
        logs == getStaffLogs(ls)
        oneHourAgo == now_ - OneHour
        Active(p) == DateGT(NewDate(p.departureTime), now_)
        Security(p) == p.checkpoints.security
        Immigration(p) == p.checkpoints.immigration
        Boarding(p) == p.checkpoints.boarding
        Recent(log) == log.timestamp > oneHourAgo
    IN  [totalEnrolled |-> Len(passengers),
         totalActive |-> Len(SelectSeq(passengers, Active)),
         checkpointStats |-> [security |-> Len(SelectSeq(passengers, Security)),
                              immigration |-> Len(SelectSeq(passengers, Immigration)),
                              boarding |-> Len(SelectSeq(passengers, Boarding))],
         recentActivity |-> SliceLast(SelectSeq(logs, Recent), RecentActivityCount)]

(***************************************************************************)
(* StaffDashboard.tsx: refreshData                                         *)
(***************************************************************************)
\* entries of the Access Logs tab
LatestLogs == 50

\* the state refreshData sets: stats, passengers, logs
refreshData(ls, now_) ==
    [stats |-> getTruidaStats(ls, now_),
     passengers |-> getAllPassengers(ls),
     logs |-> Reverse(SliceLast(getStaffLogs(ls), LatestLogs))]

(***************************************************************************)
(* CheckpointStation.tsx: processVerification                              *)
(***************************************************************************)
\* body of the loop over the candidates
CandidateStep(best, candidate, faceHash, fingerprintHash, faceEmbedding) ==
    IF HasEmbedding(candidate.biometrics.faceEmbedding)
    THEN LET verification == verifyBiometricMatch(candidate.biometrics, faceHash,
                                                  fingerprintHash, <<faceEmbedding>>)
         IN  IF SimGT(verification.similarity, best.bestSimilarity)
             THEN [bestMatch |-> candidate, bestSimilarity |-> verification.similarity]
             ELSE best
    ELSE best

RECURSIVE BestMatchLoop(_, _, _, _, _)
BestMatchLoop(candidates, best, faceHash, fingerprintHash, faceEmbedding) ==
    IF Len(candidates) = 0 THEN best
    ELSE BestMatchLoop(Tail(candidates),
                       CandidateStep(best, Head(candidates), faceHash, fingerprintHash,
                                     faceEmbedding),
                       faceHash, fingerprintHash, faceEmbedding)

\* let bestMatch = candidates[0]; let bestSimilarity = 0; for (...) {...}
FindBestMatch(candidates, faceHash, fingerprintHash, faceEmbedding) ==
    BestMatchLoop(candidates, [bestMatch |-> candidates[1], bestSimilarity |-> SimZero],
                  faceHash, fingerprintHash, faceEmbedding)

\* variant: the test for immigration is left out
PrerequisiteMissing_BoardingOnly(checkpoint, bestMatch) ==
    /\ checkpoint = "boarding"
    /\ (~bestMatch.checkpoints.security \/ ~bestMatch.checkpoints.immigration)

\* variant: the test for boarding is left out
PrerequisiteMissing_ImmigrationOnly(checkpoint, bestMatch) ==
    checkpoint = "immigration" /\ ~bestMatch.checkpoints.security

\* variant: boarding is refused only when both earlier checkpoints are missing
PrerequisiteMissing_BoardingBothMissing(checkpoint, bestMatch) ==
    \/ checkpoint = "immigration" /\ ~bestMatch.checkpoints.security
    \/ /\ checkpoint = "boarding"
       /\ (~bestMatch.checkpoints.security /\ ~bestMatch.checkpoints.immigration)

\* the two prerequisite tests
PrerequisiteMissing(checkpoint, bestMatch) ==
    \/ checkpoint = "immigration" /\ ~bestMatch.checkpoints.security
    \/ /\ checkpoint = "boarding"
       /\ (~bestMatch.checkpoints.security \/ ~bestMatch.checkpoints.immigration)

\* variant: the test for a checkpoint already passed is left out
AlreadyCleared_Never(checkpoint, bestMatch) == FALSE

AlreadyCleared(checkpoint, bestMatch) == bestMatch.checkpoints[checkpoint]

\* The five results, named after the five messages:
\*   NO_MATCH             "No matching passenger found. ..."
\*   FLIGHT_DEPARTED      "Flight has already departed. Access denied."
\*   PREREQUISITE_MISSING "Must clear security [and immigration] checkpoint[s] first."
\*   ALREADY_CLEARED      "Already cleared this checkpoint. Access granted."
\*   GRANTED              "Access granted. Welcome, ...!"
\* passenger is <<>> when the result has no passenger, else <<bestMatch>>.

\* variant: the message tells only whether access was granted
VerificationResult_GrantedOrDenied(success, passenger, message, similarity) ==
    [success |-> success, passenger |-> passenger,
     message |-> IF success THEN "GRANTED" ELSE "DENIED", similarity |-> similarity]

VerificationResult(success, passenger, message, similarity) ==
    [success |-> success, passenger |-> passenger, message |-> message,
     similarity |-> similarity]

\* The grant: updateCheckpointStatus, whose boolean is dropped, then the log
GrantedEntry(bestMatch, checkpoint, bestSimilarity, now_) ==
    [passengerId |-> bestMatch.id, checkpoint |-> checkpoint, timestamp |-> now_,
     result |-> "granted", staffId |-> "SYSTEM", notes |-> toFixed1(bestSimilarity)]

GrantAccess(ls, bestMatch, checkpoint, bestSimilarity, now_, uuid) ==
    logCheckpointAccess(updateCheckpointStatus(ls, bestMatch.id, checkpoint, TRUE).ls,
                        GrantedEntry(bestMatch, checkpoint, bestSimilarity, now_), uuid)

\* returns the storage and the value the function resolves to
processVerification(ls, checkpoint, faceHash, faceEmbedding, fingerprintHash, now_, uuid) ==
    LET candidates == findPassengersByBiometrics(ls, faceHash, fingerprintHash)
        best == FindBestMatch(candidates, faceHash, fingerprintHash, faceEmbedding)
        bestMatch == best.bestMatch
        bestSimilarity == best.bestSimilarity
    IN  IF Len(candidates) = 0
        THEN [ls |-> ls,
              result |-> VerificationResult(FALSE, <<>>, "NO_MATCH", <<>>)]
        ELSE IF ~isFlightValid(bestMatch.departureTime, now_)
        THEN [ls |-> ls,
              result |-> VerificationResult(FALSE, <<bestMatch>>, "FLIGHT_DEPARTED",
                                            <<bestSimilarity>>)]
        ELSE IF PrerequisiteMissing(checkpoint, bestMatch)
        THEN [ls |-> ls,
              result |-> VerificationResult(FALSE, <<bestMatch>>, "PREREQUISITE_MISSING",
                                            <<bestSimilarity>>)]
        ELSE IF AlreadyCleared(checkpoint, bestMatch)
        THEN [ls |-> ls,
              result |-> VerificationResult(TRUE, <<bestMatch>>, "ALREADY_CLEARED",
                                            <<bestSimilarity>>)]
        ELSE [ls |-> GrantAccess(ls, bestMatch, checkpoint, bestSimilarity, now_, uuid),
              result |-> VerificationResult(TRUE, <<bestMatch>>, "GRANTED",
                                            <<bestSimilarity>>)]

(***************************************************************************)
(* EnrollmentStation.tsx: completeEnrollment                               *)
(***************************************************************************)
\* the passport field of the form, empty or filled in
Passports == {"", "P1"}

\* variant: the id does not depend on the random UUID
generatePassengerId_Fixed(uuid) == <<"TRU", "u1">>

\* generatePassengerId: 'TRU-' + crypto.randomUUID()
generatePassengerId(uuid) == <<"TRU", uuid>>

\* The fields no operation reads (names, flight number, gate, the two Date.now()
\* stamps) are left out: every write stores whole records, so they travel with
\* the fields kept here.
NewPassenger(id, passportNumber, departureTime, faceData, fingerprintHash) ==
    [id |-> id,
     passportNumber |-> passportNumber,
     departureTime |-> departureTime,
     biometrics |-> [faceHash |-> faceData.hash,
                     fingerprintHash |-> fingerprintHash,
                     faceEmbedding |-> <<faceData.embedding>>],
     checkpoints |-> [security |-> FALSE, immigration |-> FALSE, boarding |-> FALSE]]

(***************************************************************************)
(* State.                                                                  *)
(***************************************************************************)
VARIABLES
    localStorage,   \* the two items of the browser's localStorage
    now,            \* the clock read by new Date() and Date.now()
    enrollments,    \* passenger ids generated so far
    last,           \* the operation executed last, its arguments and its result
    tabs            \* per browser tab, the operation in progress and its locals

vars == <<localStorage, now, enrollments, last, tabs>>

\* the browser tabs that share the localStorage
Tabs == {"t1", "t2"}

\* a tab with no operation in progress; ok is the boolean updateCheckpointStatus
\* returns, which processVerification does not read
IdleTab ==
    [pc |-> "idle", op |-> "", checkpoint |-> "", passengerId |-> <<>>,
     bestMatch |-> <<>>, bestSimilarity |-> <<>>, passenger |-> <<>>, array |-> <<>>,
     ok |-> FALSE]

NoArgs == [checkpoint |-> "", faceHash |-> "", fingerprintHash |-> "", faceEmbedding |-> <<>>]

\* the record of an operation that is no verification: ls is the storage it
\* leaves, success the boolean and count the number it returns
Op(name, ls, passengerId, success, count) ==
    [op |-> name, args |-> NoArgs, message |-> "", success |-> success,
     passengerId |-> passengerId, similarity |-> <<>>, count |-> count,
     calls |-> ls["calls"]]

NoId == <<>>

Init ==
    /\ localStorage = EmptyStorage
    /\ now = 0
    /\ enrollments = 0
    /\ last = Op("init", Open(EmptyStorage), NoId, FALSE, 0)
    /\ tabs = [t \in Tabs |-> IdleTab]

\* completeEnrollment with both captures present.  The face step is reached
\* through the Continue button of the info step, which is disabled while the
\* first name, the last name, the passport number or the flight number is
\* empty; the departure time is not among its conditions.
Enroll(passportNumber, departureTime, faceData, fingerprintHash) ==
    /\ enrollments < Len(PassengerUuids)
    /\ Truthy(passportNumber)
    /\ \E passenger \in {NewPassenger(generatePassengerId(PassengerUuids[enrollments + 1]),
                                       passportNumber, departureTime, faceData,
                                       fingerprintHash)} :
        \E ls \in {savePassengerData(Open(localStorage), passenger)} :
           /\ localStorage' = Items(ls)
           /\ last' = Op("enroll", ls, passenger.id, TRUE, 0)
    /\ enrollments' = enrollments + 1
    /\ UNCHANGED <<now, tabs>>

\* a scan at the station of `checkpoint`
Verify(checkpoint, faceHash, faceEmbedding, fingerprintHash) ==
    \E r \in {processVerification(Open(localStorage), checkpoint, faceHash,
                                 faceEmbedding, fingerprintHash, now,
                                 Len(getStaffLogs(localStorage)) + 1)} :
        /\ r.result.message = "GRANTED" => Len(getStaffLogs(localStorage)) < MaxLog
        /\ localStorage' = Items(r.ls)
        /\ last' = [op |-> "verify",
                    args |-> [checkpoint |-> checkpoint, faceHash |-> faceHash,
                              fingerprintHash |-> fingerprintHash,
                              faceEmbedding |-> faceEmbedding],
                    message |-> r.result.message,
                    success |-> r.result.success,
                    passengerId |-> IF Len(r.result.passenger) = 0 THEN NoId
                                    ELSE r.result.passenger[1].id,
                    similarity |-> r.result.similarity,
                    count |-> 0,
                    calls |-> r.ls["calls"]]
        /\ UNCHANGED <<now, enrollments, tabs>>

\* handleCleanup, and the effect Index runs when the application starts
Cleanup ==
    \E r \in {cleanupExpiredPassengers(Open(localStorage), now)} :
        /\ localStorage' = Items(r.ls)
        /\ last' = Op("cleanup", r.ls, NoId, TRUE, r.deletedCount)
        /\ UNCHANGED <<now, enrollments, tabs>>

Delete(passengerId) ==
    \E r \in {deletePassengerData(Open(localStorage), passengerId)} :
        /\ localStorage' = Items(r.ls)
        /\ last' = Op("delete", r.ls, passengerId, r.ok, 0)
        /\ UNCHANGED <<now, enrollments, tabs>>

\* handleClearAll, confirmed
ClearAll ==
    /\ \E ls \in {clearAllPassengerData(Open(localStorage))} :
        /\ localStorage' = Items(ls)
        /\ last' = Op("clearAll", ls, NoId, TRUE, 0)
    /\ UNCHANGED <<now, enrollments, tabs>>

\* time passes
Tick ==
    /\ now < MaxNow
    /\ now' = now + 1
    /\ last' = Op("tick", Open(localStorage), NoId, FALSE, 0)
    /\ UNCHANGED <<localStorage, enrollments, tabs>>

EnrollSome ==
    \E pn \in Passports, dt \in DepartureTimes, fh \in FaceHashes, e \in StoredEmbeddings :
        Enroll(pn, dt, [hash |-> fh, embedding |-> e], FingerprintHashes[enrollments + 1])

VerifySome ==
    \E cp \in Checkpoints, fh \in PresentedFaceHashes, e \in PresentedEmbeddings,
       fp \in PresentedFingerprints :
        Verify(cp, fh, e, fp)

DeleteSome == \E n \in 1..Len(PassengerUuids) : Delete(generatePassengerId(PassengerUuids[n]))

Next == EnrollSome \/ VerifySome \/ Cleanup \/ DeleteSome \/ ClearAll \/ Tick

Spec == Init /\ [][Next]_vars

(***************************************************************************)
(* The application left to itself: Index has mounted and its effect has    *)
(* run cleanupExpiredPassengers once; passengers enroll and are verified   *)
(* and time passes, and no staff member presses a button of the dashboard. *)
(* No timer of the application calls cleanupExpiredPassengers: the only    *)
(* interval, in StaffDashboard, calls refreshData, which reads.            *)
(***************************************************************************)
InitAuto ==
    /\ \E r \in {cleanupExpiredPassengers(Open(EmptyStorage), 0)} :
        /\ localStorage = Items(r.ls)
        /\ last = Op("cleanup", r.ls, NoId, TRUE, r.deletedCount)
    /\ now = 0
    /\ enrollments = 0
    /\ tabs = [t \in Tabs |-> IdleTab]

NextAuto == EnrollSome \/ VerifySome \/ Tick

\* the clock advances whatever the application does
SpecAuto == InitAuto /\ [][NextAuto]_vars /\ WF_vars(Tick)

(***************************************************************************)
(* Verification on the stores the PassengerData type admits.  The records  *)
(* of one face hash are the candidates of processVerification; their       *)
(* embeddings are optional (faceEmbedding?: number[]) and of any sign, so  *)
(* the similarity to the presented embedding <<1, 0>> takes the values     *)
(* 1, 0.707, 0, -0.707 and -1, or there is none to compute.                *)
(***************************************************************************)
MatchUuids == <<"u1", "u2", "u3">>

MatchEmbeddings ==
    {NoEmbedding, <<<<1, 0>>>>, <<<<1, 1>>>>, <<<<0, 1>>>>, <<<<-1, 1>>>>, <<<<-1, 0>>>>}

\* the n-th record of such a store
MatchPassenger(n, faceEmbedding) ==
    [NewPassenger(generatePassengerId(MatchUuids[n]), "P1", <<2>>,
                  [hash |-> "h1", embedding |-> <<>>], "f1")
        EXCEPT !.biometrics.faceEmbedding = faceEmbedding]

MatchStores ==
    UNION {{[n \in 1..k |-> MatchPassenger(n, embeddings[n])] :
                embeddings \in [1..k -> MatchEmbeddings]} : k \in 1..Len(MatchUuids)}

InitMatch ==
    /\ \E passengers \in MatchStores :
        localStorage = Items(setItem(Open(EmptyStorage), STORAGE_KEY, passengers))
    /\ now = 0
    /\ enrollments = Len(PassengerUuids)
    /\ last = Op("init", Open(EmptyStorage), NoId, FALSE, 0)
    /\ tabs = [t \in Tabs |-> IdleTab]

NextMatch == VerifySome

SpecMatch == InitMatch /\ [][NextMatch]_vars

(***************************************************************************)
(* The same operations run from several browser tabs on one localStorage.  *)
(* A tab runs a handler without interruption of its own, but the storage   *)
(* is shared: every getItem and every setItem is one step, and the steps   *)
(* of different tabs interleave.  Between two of its storage accesses a    *)
(* tab keeps what it has read in its locals.                               *)
(*   pc          storage access the tab makes next                         *)
(*   "update"    getItem in updateCheckpointStatus (getAllPassengers)      *)
(*   "save"      getItem in savePassengerData (getAllPassengers)           *)
(*   "write"     setItem in savePassengerData                              *)
(*   "log"       getItem in logCheckpointAccess (getStaffLogs)             *)
(*   "logwrite"  setItem in logCheckpointAccess                            *)
(*   "delete"    setItem in deletePassengerData                            *)
(***************************************************************************)
\* grants decided whose log entry is not written yet
GrantsInFlight == Cardinality({t \in Tabs : tabs[t].op = "verify"})

\* completeEnrollment in tab t, up to the call of savePassengerData
StartEnroll(t, passportNumber, departureTime, faceData, fingerprintHash) ==
    /\ tabs[t].pc = "idle"
    /\ enrollments < Len(PassengerUuids)
    /\ Truthy(passportNumber)
    /\ tabs' = [tabs EXCEPT ![t] =
                 [IdleTab EXCEPT
                    !.pc = "save", !.op = "enroll",
                    !.passenger =
                        <<NewPassenger(generatePassengerId(PassengerUuids[enrollments + 1]),
                                       passportNumber, departureTime, faceData,
                                       fingerprintHash)>>]]
    /\ enrollments' = enrollments + 1
    /\ UNCHANGED <<localStorage, now, last>>

\* processVerification in tab t from its getItem in findPassengersByBiometrics
\* to its return or, when it grants, to the call of updateCheckpointStatus
StartVerify(t, checkpoint, faceHash, faceEmbedding, fingerprintHash) ==
    /\ tabs[t].pc = "idle"
    /\ \E r \in {processVerification(Open(localStorage), checkpoint, faceHash,
                                    faceEmbedding, fingerprintHash, now, 0).result} :
        IF r.message = "GRANTED"
        THEN /\ Len(getStaffLogs(localStorage)) + GrantsInFlight < MaxLog
             /\ tabs' = [tabs EXCEPT ![t] =
                          [IdleTab EXCEPT
                             !.pc = "update", !.op = "verify",
                             !.checkpoint = checkpoint,
                             !.bestMatch = r.passenger,
                             !.bestSimilarity = r.similarity]]
        ELSE tabs' = tabs
    /\ UNCHANGED <<localStorage, now, enrollments, last>>

\* updateCheckpointStatus: getAllPassengers and find, then the flag is set on the
\* record read; without a record it returns false and the log follows
UpdateRead(t) ==
    /\ tabs[t].pc = "update"
    /\ \E passenger \in {getPassengerById(Open(localStorage), tabs[t].bestMatch[1].id)} :
        tabs' = [tabs EXCEPT ![t] =
                  IF Len(passenger) = 0
                  THEN [@ EXCEPT !.pc = "log"]
                  ELSE [@ EXCEPT !.pc = "save",
                                 !.passenger =
                                    <<[passenger[1] EXCEPT
                                         !.checkpoints[tabs[t].checkpoint] = TRUE]>>]]
    /\ UNCHANGED <<localStorage, now, enrollments, last>>

\* savePassengerData: getAllPassengers, then the array to write is built
SaveRead(t) ==
    /\ tabs[t].pc = "save"
    /\ tabs' = [tabs EXCEPT ![t] =
                 [@ EXCEPT !.pc = "write",
                           !.array = PutPassenger(getAllPassengers(Open(localStorage)),
                                                  tabs[t].passenger[1])]]
    /\ UNCHANGED <<localStorage, now, enrollments, last>>

\* savePassengerData: setItem; an enrollment is complete with it
SaveWrite(t) ==
    /\ tabs[t].pc = "write"
    /\ localStorage' = Items(setItem(Open(localStorage), STORAGE_KEY, tabs[t].array))
    /\ tabs' = [tabs EXCEPT ![t] =
                 IF tabs[t].op = "enroll"
                 THEN IdleTab
                 ELSE [@ EXCEPT !.pc = "log", !.passenger = <<>>, !.array = <<>>,
                                !.ok = TRUE]]
    /\ UNCHANGED <<now, enrollments, last>>

\* logCheckpointAccess: getStaffLogs, then the entry is pushed
LogRead(t) ==
    /\ tabs[t].pc = "log"
    /\ \E logs \in {getStaffLogs(Open(localStorage))} :
        tabs' = [tabs EXCEPT ![t] =
                  [@ EXCEPT !.pc = "logwrite",
                            !.array =
                              Append(logs,
                                     StaffLogEntry(GrantedEntry(tabs[t].bestMatch[1],
                                                                tabs[t].checkpoint,
                                                                tabs[t].bestSimilarity[1],
                                                                now),
                                                   Len(logs) + 1))]]
    /\ UNCHANGED <<localStorage, now, enrollments, last>>

\* logCheckpointAccess: setItem; processVerification returns its grant
LogWrite(t) ==
    /\ tabs[t].pc = "logwrite"
    /\ localStorage' = Items(setItem(Open(localStorage), STAFF_STORAGE_KEY, tabs[t].array))
    /\ tabs' = [tabs EXCEPT ![t] = IdleTab]
    /\ UNCHANGED <<now, enrollments, last>>

\* the clock stands still while the tabs interleave: the flights entered are
\* the ones that have not departed
FutureDepartureTimes == {<<2>>}

\* deletePassengerData: getAllPassengers, then the record is filtered out
DeleteRead(t, passengerId) ==
    /\ tabs[t].pc = "idle"
    /\ LET Keep(p) == p.id /= passengerId
       IN  tabs' = [tabs EXCEPT ![t] =
                     [IdleTab EXCEPT
                        !.pc = "delete", !.op = "delete",
                        !.passengerId = passengerId,
                        !.array = SelectSeq(getAllPassengers(Open(localStorage)), Keep)]]
    /\ UNCHANGED <<localStorage, now, enrollments, last>>

\* deletePassengerData: setItem, and true is returned
DeleteWrite(t) ==
    /\ tabs[t].pc = "delete"
    /\ \E ls \in {setItem(Open(localStorage), STORAGE_KEY, tabs[t].array)} :
        /\ localStorage' = Items(ls)
        /\ last' = Op("delete", ls, tabs[t].passengerId, TRUE, 0)
    /\ tabs' = [tabs EXCEPT ![t] = IdleTab]
    /\ UNCHANGED <<now, enrollments>>

StartEnrollSome ==
    \E t \in Tabs, pn \in Passports, dt \in FutureDepartureTimes, fh \in FaceHashes,
       e \in PresentedEmbeddings :
        StartEnroll(t, pn, dt, [hash |-> fh, embedding |-> e],
                    FingerprintHashes[enrollments + 1])

StartVerifySome ==
    \E t \in Tabs, cp \in Checkpoints, fh \in PresentedFaceHashes,
       e \in PresentedEmbeddings :
        StartVerify(t, cp, fh, e, Undefined)

\* of an id that has been generated
DeleteReadSome ==
    \E t \in Tabs, n \in 1..enrollments :
        DeleteRead(t, generatePassengerId(PassengerUuids[n]))

TabStep ==
    \E t \in Tabs :
        UpdateRead(t) \/ SaveRead(t) \/ SaveWrite(t) \/ LogRead(t) \/ LogWrite(t)

NextConc == StartEnrollSome \/ StartVerifySome \/ TabStep

DeleteStep == \E t \in Tabs : DeleteWrite(t)

\* the tabs with one passenger enrolled, whose record is also deleted
NextDelete ==
    \/ enrollments = 0 /\ StartEnrollSome
    \/ StartVerifySome
    \/ DeleteReadSome
    \/ TabStep
    \/ DeleteStep

SpecDelete == Init /\ [][NextDelete]_vars

SpecConc == Init /\ [][NextConc]_vars

(***************************************************************************)
(* calculateFaceSimilarity on its own: each step calls it with two vectors *)
(* of numbers, of equal or different lengths, the empty and the zero       *)
(* vectors included.                                                       *)
(***************************************************************************)
Components == {-1, 0, 1}

Vectors == UNION {[1..n -> Components] : n \in 0..MaxDim}

Similarity(embedding1, embedding2) ==
    /\ last' = [op |-> "similarity",
                args |-> [embedding1 |-> embedding1, embedding2 |-> embedding2],
                message |-> "", success |-> TRUE, passengerId |-> NoId,
                similarity |-> <<calculateFaceSimilarity(embedding1, embedding2)>>,
                count |-> 0, calls |-> 0]
    /\ UNCHANGED <<localStorage, now, enrollments, tabs>>

NextSim == \E embedding1, embedding2 \in Vectors : Similarity(embedding1, embedding2)

SpecSim == Init /\ [][NextSim]_vars

(***************************************************************************)
(* The dashboard and the access log: stations append entries as time       *)
(* passes, and the dashboard refreshes (on mount and every 30 seconds).    *)
(***************************************************************************)
\* logCheckpointAccess as a granting station calls it
LogAccess ==
    /\ Len(getStaffLogs(localStorage)) < MaxEntries
    /\ \E ls \in {logCheckpointAccess(
                      Open(localStorage),
                      GrantedEntry([id |-> generatePassengerId(PassengerUuids[1])],
                                   "security", Sim(1, 1), now),
                      Len(getStaffLogs(localStorage)) + 1)} :
          /\ localStorage' = Items(ls)
          /\ last' = Op("log", ls, NoId, TRUE, 0)
    /\ UNCHANGED <<now, enrollments, tabs>>

Refresh ==
    /\ last' = [op |-> "refresh", args |-> NoArgs, message |-> "", success |-> TRUE,
                passengerId |-> NoId, similarity |-> <<>>, count |-> 0,
                calls |-> Open(localStorage)["calls"],
                view |-> refreshData(Open(localStorage), now)]
    /\ UNCHANGED <<localStorage, now, enrollments, tabs>>

NextDashboard ==
    \/ LogAccess
    \/ Refresh
    \/ Tick

SpecDashboard == Init /\ [][NextDashboard]_vars

(***************************************************************************)
(* EnrollmentStation.tsx: the wizard.  One tab shows the enrollment        *)
(* station; its entry of `tabs` is the state of the component, with the    *)
(* image processing in progress (capturing, uploading).                    *)
(***************************************************************************)
KioskTab == "t1"

\* the state of the component when it is mounted
InitialStation ==
    [pc |-> "station", currentStep |-> "info", isProcessing |-> FALSE, stream |-> FALSE,
     faceData |-> <<>>, fingerprintHash |-> <<>>,
     formData |-> [passportNumber |-> "", departureTime |-> <<>>],
     capturing |-> FALSE, uploading |-> 0]

Station == tabs[KioskTab]

SetStation(station) ==
    /\ tabs' = [tabs EXCEPT ![KioskTab] = station]
    /\ UNCHANGED <<localStorage, now, enrollments, last>>

InitWizard ==
    /\ localStorage = EmptyStorage
    /\ now = 0
    /\ enrollments = 0
    /\ last = Op("init", Open(EmptyStorage), NoId, FALSE, 0)
    /\ tabs = [t \in Tabs |-> IF t = KioskTab THEN InitialStation ELSE IdleTab]

\* the inputs of the info step
SetFormData(passportNumber, departureTime) ==
    /\ Station.currentStep = "info"
    /\ SetStation([Station EXCEPT !.formData = [passportNumber |-> passportNumber,
                                                departureTime |-> departureTime]])

\* the button Continue to Face Scan
ContinueToFaceScan ==
    /\ Station.currentStep = "info"
    /\ Truthy(Station.formData.passportNumber)
    /\ SetStation([Station EXCEPT !.currentStep = "face"])

\* onLoadedMetadata of the video element, when getUserMedia succeeds
startCamera ==
    /\ Station.currentStep = "face"
    /\ ~Station.stream
    /\ SetStation([Station EXCEPT !.stream = TRUE])

\* the Back buttons of the face, fingerprint and complete steps
Back ==
    /\ Station.currentStep \in {"face", "fingerprint", "complete"}
    /\ ~Station.isProcessing
    /\ SetStation([Station EXCEPT
                     !.currentStep = CASE Station.currentStep = "face" -> "info"
                                       [] Station.currentStep = "fingerprint" -> "face"
                                       [] Station.currentStep = "complete" -> "fingerprint"])

\* the button Capture Face, up to the loading of the image
capturePhoto ==
    /\ Station.currentStep = "face"
    /\ ~Station.isProcessing
    /\ Station.stream
    /\ ~Station.capturing
    /\ SetStation([Station EXCEPT !.isProcessing = TRUE, !.capturing = TRUE])

\* variant: the wizard moves on whether or not the face was processed
FaceProcessed_AlwaysAdvances(succeeds, faceData) ==
    /\ Station.capturing
    /\ SetStation(IF succeeds
                  THEN [Station EXCEPT !.faceData = <<faceData>>, !.stream = FALSE,
                                       !.currentStep = "fingerprint",
                                       !.isProcessing = FALSE, !.capturing = FALSE]
                  ELSE [Station EXCEPT !.currentStep = "fingerprint",
                                       !.isProcessing = FALSE, !.capturing = FALSE])

\* img.onload of capturePhoto: processFaceImage resolves or throws
FaceProcessed(succeeds, faceData) ==
    /\ Station.capturing
    /\ SetStation(IF succeeds
                  THEN [Station EXCEPT !.faceData = <<faceData>>, !.stream = FALSE,
                                       !.currentStep = "fingerprint",
                                       !.isProcessing = FALSE, !.capturing = FALSE]
                  ELSE [Station EXCEPT !.isProcessing = FALSE, !.capturing = FALSE])

\* handleFingerprintUpload, up to the loading of the file; the input is not
\* disabled while an upload is processed
handleFingerprintUpload ==
    /\ Station.currentStep = "fingerprint"
    /\ Station.uploading < MaxUploads
    /\ enrollments < Len(PassengerUuids)
    /\ SetStation([Station EXCEPT !.isProcessing = TRUE, !.uploading = @ + 1])

\* handleFingerprintUpload: processFingerprintImage resolves or throws
FingerprintProcessed(succeeds, hash) ==
    /\ Station.uploading > 0
    /\ SetStation(IF succeeds
                  THEN [Station EXCEPT !.fingerprintHash = <<hash>>,
                                       !.currentStep = "complete",
                                       !.isProcessing = FALSE, !.uploading = @ - 1]
                  ELSE [Station EXCEPT !.isProcessing = FALSE, !.uploading = @ - 1])

\* the button Complete Enrollment: completeEnrollment, then Index returns to
\* the menu and the station is mounted anew for the next passenger
CompleteEnrollment ==
    /\ Station.currentStep = "complete"
    /\ ~Station.isProcessing
    /\ enrollments < Len(PassengerUuids)
    /\ IF Len(Station.faceData) = 0 \/ Len(Station.fingerprintHash) = 0
       THEN /\ last' = Op("enroll", Open(localStorage), NoId, FALSE, 0)
            /\ UNCHANGED <<localStorage, enrollments, tabs>>
       ELSE \E passenger \in {NewPassenger(
                                 generatePassengerId(PassengerUuids[enrollments + 1]),
                                 Station.formData.passportNumber,
                                 Station.formData.departureTime,
                                 Station.faceData[1], Station.fingerprintHash[1])} :
              \E ls \in {savePassengerData(Open(localStorage), passenger)} :
                 /\ localStorage' = Items(ls)
                 /\ last' = Op("enroll", ls, passenger.id, TRUE, 0)
                 /\ enrollments' = enrollments + 1
                 /\ tabs' = [tabs EXCEPT ![KioskTab] = InitialStation]
    /\ UNCHANGED now

SetFormDataSome ==
    \E pn \in Passports, dt \in FutureDepartureTimes \cup {<<>>} : SetFormData(pn, dt)

FaceProcessedSome ==
    \E succeeds \in BOOLEAN, fh \in FaceHashes, e \in PresentedEmbeddings :
        FaceProcessed(succeeds, [hash |-> fh, embedding |-> e])

FingerprintProcessedSome ==
    \E succeeds \in BOOLEAN : FingerprintProcessed(succeeds, FingerprintHashes[enrollments + 1])

NextWizard ==
    \/ SetFormDataSome
    \/ ContinueToFaceScan
    \/ startCamera
    \/ Back
    \/ capturePhoto
    \/ FaceProcessedSome
    \/ handleFingerprintUpload
    \/ FingerprintProcessedSome
    \/ CompleteEnrollment

SpecWizard == InitWizard /\ [][NextWizard]_vars

(***************************************************************************)
(* Vocabulary of the properties.                                           *)
(***************************************************************************)
Passengers == getAllPassengers(localStorage)

StaffLogs == getStaffLogs(localStorage)

\* the stored record with this id, when there is exactly one
Stored(items, id) == getPassengerById(items, id)[1]

IsStored(items, id) == Len(getPassengerById(items, id)) > 0

\* the step is one call of processVerification
VerifyStep == last'.op = "verify"

\* ... that selected a best match, which Selected then denotes, as stored
\* before the call
VerifyStepWithMatch == VerifyStep /\ last'.passengerId /= NoId

Selected == Stored(localStorage, last'.passengerId)

\* departureTime <= now, for a departureTime that denotes an instant
DepartedAt(p, t) == Len(p.departureTime) > 0 /\ p.departureTime[1] <= t

NotDepartedAt(p, t) == Len(p.departureTime) > 0 /\ p.departureTime[1] > t

PassengersUnchanged == localStorage'[STORAGE_KEY] = localStorage[STORAGE_KEY]

LogsUnchanged == localStorage'[STAFF_STORAGE_KEY] = localStorage[STAFF_STORAGE_KEY]

(***************************************************************************)
(* C1: every stored record with checkpoints.boarding = true also has       *)
(* checkpoints.security = true and checkpoints.immigration = true, in      *)
(* every state reachable by enroll, verify, sweep, delete and clear-all.   *)
(***************************************************************************)
C1_BoardingImpliesEarlierCheckpoints ==
    \A i \in 1..Len(Passengers) :
        Passengers[i].checkpoints.boarding =>
            Passengers[i].checkpoints.security /\ Passengers[i].checkpoints.immigration

\* a boarding grant has just been written
C1_Witness ==
    /\ last.op = "verify"
    /\ last.message = "GRANTED"
    /\ last.args.checkpoint = "boarding"
    /\ IsStored(localStorage, last.passengerId)
    /\ Stored(localStorage, last.passengerId).checkpoints.boarding

(***************************************************************************)
(* C2: when the record selected as best match has departureTime <= now     *)
(* (equality included), verify returns FLIGHT_DEPARTED whatever the        *)
(* checkpoint and the record's flags, never a granting result, and sets no *)
(* checkpoint flag.                                                        *)
(***************************************************************************)
C2_DepartedIsDenied ==
    [][(VerifyStepWithMatch /\ DepartedAt(Selected, now)) =>
          /\ last'.message = "FLIGHT_DEPARTED"
          /\ ~last'.success
          /\ PassengersUnchanged
          /\ last'.calls[STORAGE_KEY] = 0]_vars

\* denied at the very instant of departure although the requested
\* checkpoint was already cleared
C2_Witness ==
    /\ last.op = "verify"
    /\ last.message = "FLIGHT_DEPARTED"
    /\ IsStored(localStorage, last.passengerId)
    /\ Stored(localStorage, last.passengerId).departureTime = <<now>>
    /\ Stored(localStorage, last.passengerId).checkpoints[last.args.checkpoint]

(***************************************************************************)
(* C3: for a selected record whose flight has not departed,                *)
(* verify(immigration) returns PREREQUISITE_MISSING whenever security is   *)
(* false and verify(boarding) returns PREREQUISITE_MISSING whenever        *)
(* security or immigration is false; the requested flag is false           *)
(* afterwards.                                                             *)
(***************************************************************************)
C3_PrerequisiteMissing ==
    [][(/\ VerifyStepWithMatch
        /\ NotDepartedAt(Selected, now)
        /\ \/ /\ last'.args.checkpoint = "immigration"
              /\ ~Selected.checkpoints.security
           \/ /\ last'.args.checkpoint = "boarding"
              /\ (~Selected.checkpoints.security \/ ~Selected.checkpoints.immigration)) =>
          /\ last'.message = "PREREQUISITE_MISSING"
          /\ ~last'.success
          /\ IsStored(localStorage', last'.passengerId)
          /\ ~Stored(localStorage', last'.passengerId).checkpoints[last'.args.checkpoint]]_vars

\* boarding refused to a passenger who cleared security but not immigration
C3_Witness ==
    /\ last.op = "verify"
    /\ last.message = "PREREQUISITE_MISSING"
    /\ last.args.checkpoint = "boarding"
    /\ IsStored(localStorage, last.passengerId)
    /\ Stored(localStorage, last.passengerId).checkpoints.security
    /\ ~Stored(localStorage, last.passengerId).checkpoints.immigration
    /\ ~Stored(localStorage, last.passengerId).checkpoints.boarding

\* the prerequisites of checkpoint c are cleared on record p
PrerequisitesCleared(c, p) ==
    /\ c = "immigration" => p.checkpoints.security
    /\ c = "boarding" => p.checkpoints.security /\ p.checkpoints.immigration

\* the step is a verify that repeats, with the same checkpoint and the same
\* presented inputs, the verify executed just before it, which was GRANTED
RepeatsGrantedVerify ==
    /\ last.op = "verify"
    /\ last.message = "GRANTED"
    /\ VerifyStep
    /\ last'.args = last.args

(***************************************************************************)
(* C4: verify called twice in sequence with the same checkpoint and        *)
(* inputs, on a record with a future departure, cleared prerequisites and  *)
(* the flag false, yields GRANTED then ALREADY_CLEARED (reported as        *)
(* success); the passenger store is written once, by the first call, and   *)
(* the second call leaves it unchanged.                                    *)
(***************************************************************************)
C4_GrantedThenAlreadyCleared ==
    [][/\ (/\ VerifyStepWithMatch
           /\ NotDepartedAt(Selected, now)
           /\ PrerequisitesCleared(last'.args.checkpoint, Selected)
           /\ ~Selected.checkpoints[last'.args.checkpoint]) =>
             /\ last'.message = "GRANTED"
             /\ last'.success
             /\ last'.calls[STORAGE_KEY] = 1
       /\ RepeatsGrantedVerify =>
             /\ last'.message = "ALREADY_CLEARED"
             /\ last'.success
             /\ last'.passengerId = last.passengerId
             /\ last'.calls[STORAGE_KEY] = 0
             /\ PassengersUnchanged]_vars

\* the second of two calls has answered ALREADY_CLEARED for the checkpoint
\* whose grant is the newest entry of the log, made at this instant
C4_Witness ==
    /\ last.op = "verify"
    /\ last.message = "ALREADY_CLEARED"
    /\ Len(StaffLogs) > 0
    /\ StaffLogs[Len(StaffLogs)].passengerId = last.passengerId
    /\ StaffLogs[Len(StaffLogs)].checkpoint = last.args.checkpoint
    /\ StaffLogs[Len(StaffLogs)].timestamp = now

GrantedEntryFor(entry, passengerId, checkpoint) ==
    /\ entry.passengerId = passengerId
    /\ entry.checkpoint = checkpoint
    /\ entry.result = "granted"

(***************************************************************************)
(* C5: verify called twice in sequence with the same checkpoint and inputs *)
(* (GRANTED, then ALREADY_CLEARED) appends exactly two access-log entries  *)
(* for that passenger and checkpoint, both granted: the second call        *)
(* appends the second one.                                                 *)
(***************************************************************************)
C5_TwoGrantedLogEntries ==
    [][RepeatsGrantedVerify =>
          /\ Len(getStaffLogs(localStorage')) = Len(StaffLogs) + 1
          /\ SubSeq(getStaffLogs(localStorage'), 1, Len(StaffLogs)) = StaffLogs
          /\ GrantedEntryFor(StaffLogs[Len(StaffLogs)], last.passengerId,
                             last.args.checkpoint)
          /\ GrantedEntryFor(getStaffLogs(localStorage')[Len(StaffLogs) + 1],
                             last.passengerId, last.args.checkpoint)]_vars

(***************************************************************************)
(* C6: every verify that finds a candidate appends exactly one access-log  *)
(* entry for the selected passenger and the requested checkpoint, granted  *)
(* for GRANTED and ALREADY_CLEARED, denied for FLIGHT_DEPARTED and         *)
(* PREREQUISITE_MISSING.                                                   *)
(***************************************************************************)
C6_EveryMatchedVerifyIsLogged ==
    [][VerifyStepWithMatch =>
          /\ Len(getStaffLogs(localStorage')) = Len(StaffLogs) + 1
          /\ SubSeq(getStaffLogs(localStorage'), 1, Len(StaffLogs)) = StaffLogs
          /\ LET entry == getStaffLogs(localStorage')[Len(StaffLogs) + 1]
             IN  /\ entry.passengerId = last'.passengerId
                 /\ entry.checkpoint = last'.args.checkpoint
                 /\ entry.result =
                        IF last'.message \in {"GRANTED", "ALREADY_CLEARED"}
                        THEN "granted" ELSE "denied"]_vars

\* no stored record has the presented face hash and, when a fingerprint
\* hash is supplied, that fingerprint hash
NoStoredMatch(faceHash, fingerprintHash) ==
    \A i \in 1..Len(Passengers) :
        \/ Passengers[i].biometrics.faceHash /= faceHash
        \/ /\ fingerprintHash /= Undefined
           /\ Passengers[i].biometrics.fingerprintHash /= fingerprintHash

(***************************************************************************)
(* C7: when no stored record has the presented faceHash (and the presented *)
(* fingerprintHash, if supplied), verify returns NO_MATCH with no          *)
(* passenger attached, appends no log entry and leaves the passenger store *)
(* unchanged.                                                              *)
(***************************************************************************)
C7_NoMatch ==
    [][(VerifyStep /\ NoStoredMatch(last'.args.faceHash, last'.args.fingerprintHash)) =>
          /\ last'.message = "NO_MATCH"
          /\ ~last'.success
          /\ last'.passengerId = NoId
          /\ last'.similarity = <<>>
          /\ last'.calls = [k \in StorageKeys |-> 0]
          /\ PassengersUnchanged
          /\ LogsUnchanged]_vars

\* NO_MATCH although a stored record has the presented face hash: its
\* fingerprint hash is not the one supplied
C7_Witness ==
    /\ last.op = "verify"
    /\ last.message = "NO_MATCH"
    /\ last.args.fingerprintHash /= Undefined
    /\ \E i \in 1..Len(Passengers) :
          Passengers[i].biometrics.faceHash = last.args.faceHash

(***************************************************************************)
(* C8: a verify changes nothing in the passenger store except, when it     *)
(* answers GRANTED, the flag checkpoints[checkpoint] of the selected       *)
(* record, which goes from false to true; every other field, every other   *)
(* record and the order of the records stay as they were.                  *)
(***************************************************************************)
C8_VerifyFrame ==
    [][VerifyStep =>
          IF last'.message = "GRANTED"
          THEN \E i \in 1..Len(Passengers) :
                  /\ Passengers[i].id = last'.passengerId
                  /\ ~Passengers[i].checkpoints[last'.args.checkpoint]
                  /\ getAllPassengers(localStorage') =
                        [Passengers EXCEPT ![i].checkpoints[last'.args.checkpoint] = TRUE]
          ELSE PassengersUnchanged]_vars

\* a grant in a store of two records with the same face hash
C8_Witness ==
    /\ last.op = "verify"
    /\ last.message = "GRANTED"
    /\ Len(Passengers) = 2
    /\ Passengers[1].biometrics.faceHash = Passengers[2].biometrics.faceHash
    /\ Passengers[2].id = last.passengerId
    /\ Passengers[1].checkpoints.security

(***************************************************************************)
(* C9: checkpoint flags are monotonic: a flag that is true stays true in   *)
(* every later state in which the record still exists, under enroll,       *)
(* verify, sweep and delete.                                               *)
(***************************************************************************)
C9_FlagsMonotonic ==
    [][\A i \in 1..Len(Passengers), j \in 1..Len(getAllPassengers(localStorage')) :
          Passengers[i].id = getAllPassengers(localStorage')[j].id =>
             \A c \in Checkpoints :
                Passengers[i].checkpoints[c] =>
                   getAllPassengers(localStorage')[j].checkpoints[c]]_vars

\* a second flag has been granted to a record that already had one
C9_Witness ==
    /\ last.op = "verify"
    /\ last.message = "GRANTED"
    /\ last.args.checkpoint = "immigration"
    /\ IsStored(localStorage, last.passengerId)
    /\ Stored(localStorage, last.passengerId).checkpoints.security
    /\ Stored(localStorage, last.passengerId).checkpoints.immigration

(***************************************************************************)
(* C10.  Two verifications for the same passenger id running in two tabs   *)
(* are mutually exclusive from the read of the candidates to the write of  *)
(* the grant: no state has two tabs that have both read the record of one  *)
(* id and have not yet written their grant.                                *)
(* processVerification takes no lock and localStorage offers none.         *)
(***************************************************************************)
\* tab t has read its candidates and decided to grant; its setItem on the
\* passengers is still to come
InReadDecideWrite(t) ==
    /\ tabs[t].op = "verify"
    /\ tabs[t].pc \in {"update", "save", "write"}

C10_MutualExclusion ==
    \A t, u \in Tabs :
        (t /= u /\ InReadDecideWrite(t) /\ InReadDecideWrite(u))
            => tabs[t].bestMatch[1].id /= tabs[u].bestMatch[1].id

(***************************************************************************)
(* C11.  Deletion is irreversible, also against a grant in progress: once  *)
(* deletePassengerData has removed the record of an id, no later state has *)
(* a record of that id in the store, unless the id is enrolled anew.  Ids  *)
(* are generated once, so a completed enrollment is never repeated.        *)
(* savePassengerData pushes the record it is given when its id is not in   *)
(* the array it reads: a grant that has read the record before the         *)
(* deletion writes it back.                                                *)
(***************************************************************************)
\* the id has been generated and its enrollment has made its setItem
EnrollmentComplete(id) ==
    /\ \E n \in 1..enrollments : id = generatePassengerId(PassengerUuids[n])
    /\ \A t \in Tabs : tabs[t].op = "enroll" => tabs[t].passenger[1].id /= id

C11_DeletionIsIrreversible ==
    [][(/\ last.op = "delete"
        /\ EnrollmentComplete(last.passengerId)
        /\ ~IsStored(localStorage, last.passengerId))
          => ~IsStored(localStorage', last.passengerId)]_vars

(***************************************************************************)
(* C12.  When the grant cannot be persisted after verify has decided to    *)
(* grant (here: the record is no longer found when the flag is to be       *)
(* written, updateCheckpointStatus returns false), verify appends no       *)
(* granted log entry and does not report GRANTED: every verify that makes  *)
(* the setItem of its log entry and returns has written its flag.          *)
(* processVerification drops the boolean of updateCheckpointStatus.        *)
(***************************************************************************)
\* tab t appends its granted entry and processVerification returns GRANTED
ReportsGranted(t) ==
    /\ tabs[t].op = "verify"
    /\ tabs[t].pc = "logwrite"
    /\ tabs'[t].pc = "idle"

C12_FailedGrantIsNotReported ==
    [][\A t \in Tabs : ReportsGranted(t) => tabs[t].ok]_vars

(***************************************************************************)
(* Best-match selection (C13, C14, C15).                                   *)
(***************************************************************************)
\* the candidates of the verification that the step makes
Candidates ==
    findPassengersByBiometrics(localStorage, last'.args.faceHash,
                               last'.args.fingerprintHash)

\* the similarity of record p to the embedding presented in the step; 0 for
\* a record without an embedding
SimilarityOf(p) ==
    verifyBiometricMatch(p.biometrics, last'.args.faceHash, last'.args.fingerprintHash,
                         <<last'.args.faceEmbedding>>).similarity

StoresEmbedding(p) == HasEmbedding(p.biometrics.faceEmbedding)

HasMaximum(i) ==
    /\ StoresEmbedding(Candidates[i])
    /\ \A j \in 1..Len(Candidates) :
          StoresEmbedding(Candidates[j])
              => ~SimGT(SimilarityOf(Candidates[j]), SimilarityOf(Candidates[i]))

EarliestMaximum ==
    CHOOSE i \in 1..Len(Candidates) :
        /\ HasMaximum(i)
        /\ \A j \in 1..(i - 1) : ~HasMaximum(j)

MaximumIsShared ==
    \E i, j \in 1..Len(Candidates) : i /= j /\ HasMaximum(i) /\ HasMaximum(j)

SweepStep == last'.op = "cleanup"

C16_SweepRemovesDeparted ==
    [][SweepStep =>
          LET Keep(p) == NotDepartedAt(p, now)
          IN  /\ getAllPassengers(localStorage') = SelectSeq(Passengers, Keep)
              /\ \A i \in 1..Len(Passengers) :
                    DepartedAt(Passengers[i], now)
                        => ~IsStored(localStorage', Passengers[i].id)
              /\ last'.count = Len(Passengers) - Len(getAllPassengers(localStorage'))]_vars

\* a sweep at time 1 has removed one of two records and kept the other
C16_Witness ==
    /\ last.op = "cleanup"
    /\ now = 1
    /\ last.count = 1
    /\ Len(Passengers) = 1
    /\ enrollments = 2

(***************************************************************************)
(* C17: a sweep that directly follows a sweep, at the same time, returns 0 *)
(* and leaves the passengers item exactly as the first sweep left it, the  *)
(* empty store included.                                                   *)
(***************************************************************************)
C17_SweepIdempotent ==
    [][(last.op = "cleanup" /\ SweepStep /\ now' = now) =>
          /\ last'.count = 0
          /\ localStorage' = localStorage]_vars

\* the state a second sweep at time 1 leaves: nothing removed, one of the
\* two enrolled records removed before
C17_Witness ==
    /\ last.op = "cleanup"
    /\ last.count = 0
    /\ now = 1
    /\ enrollments = 2
    /\ Len(Passengers) = 1
    /\ NotDepartedAt(Passengers[1], now)

(***************************************************************************)
(* C18: passenger data is deleted automatically after the departure of the *)
(* flight: every stored record whose departureTime has passed is           *)
(* eventually removed from the store while the application keeps running,  *)
(* without a press of the cleanup or the clear-all button.                 *)
(* cleanupExpiredPassengers runs when Index mounts and on the cleanup      *)
(* button, and never after that on its own.                                *)
(***************************************************************************)
C18_AutomaticDeletion ==
    \A n \in 1..Len(PassengerUuids) :
        (/\ IsStored(localStorage, generatePassengerId(PassengerUuids[n]))
         /\ DepartedAt(Stored(localStorage, generatePassengerId(PassengerUuids[n])), now))
            ~> ~IsStored(localStorage, generatePassengerId(PassengerUuids[n]))

(***************************************************************************)
(* The sequence enroll, verify(security), verify(immigration),             *)
(* verify(boarding) with nothing in between (C19).                         *)
(***************************************************************************)
\* the record of the enrollment executed last
Enrolled == Stored(localStorage, last.passengerId)

\* the step is verify(security) with the face hash enrolled just before, for
\* a flight that has not departed, no fingerprint being presented
VerifiesEnrolled ==
    /\ last.op = "enroll"
    /\ NotDepartedAt(Enrolled, now)
    /\ VerifyStep
    /\ last'.args.checkpoint = "security"
    /\ last'.args.faceHash = Enrolled.biometrics.faceHash
    /\ last'.args.fingerprintHash = Undefined

\* the step is verify(c2) with the inputs of the verify(c1) executed just
\* before it, which was GRANTED
VerifiesNext(c1, c2) ==
    /\ last.op = "verify"
    /\ last.message = "GRANTED"
    /\ last.args.checkpoint = c1
    /\ VerifyStep
    /\ last'.args = [last.args EXCEPT !.checkpoint = c2]

GrantedTo(passengerId) ==
    /\ last'.message = "GRANTED"
    /\ last'.passengerId = passengerId

AllCleared(p) == \A c \in Checkpoints : p.checkpoints[c]

(***************************************************************************)
(* C19: a passenger enrolled with a future departure completes the         *)
(* sequence: verify(security), verify(immigration) and verify(boarding)    *)
(* with the enrolled face hash, nothing in between, are GRANTED to the     *)
(* passenger one after the other and leave the three flags true.           *)
(* As stated it fails when another stored record has the same face hash    *)
(* and is the best match: that record is verified instead.                 *)
(***************************************************************************)
C19_EnrolledCompletesSequence ==
    [][/\ VerifiesEnrolled => GrantedTo(last.passengerId)
       /\ VerifiesNext("security", "immigration") => GrantedTo(last.passengerId)
       /\ VerifiesNext("immigration", "boarding") =>
             /\ GrantedTo(last.passengerId)
             /\ AllCleared(Stored(localStorage', last.passengerId))]_vars

(***************************************************************************)
(* C19 as amended: the same, for a passenger whose record is the only      *)
(* stored record with its face hash.                                       *)
(***************************************************************************)
C19_OnlyCandidateCompletesSequence ==
    [][/\ (VerifiesEnrolled /\ Candidates = <<Enrolled>>)
             => GrantedTo(last.passengerId)
       /\ VerifiesNext("security", "immigration") => GrantedTo(last.passengerId)
       /\ VerifiesNext("immigration", "boarding") =>
             /\ GrantedTo(last.passengerId)
             /\ AllCleared(Stored(localStorage', last.passengerId))]_vars

\* the third grant of the sequence has been made: the log holds the three
\* grants of the passenger in order, who is the only one with the face hash
C19_Witness ==
    /\ last.op = "verify"
    /\ last.message = "GRANTED"
    /\ last.args.checkpoint = "boarding"
    /\ AllCleared(Stored(localStorage, last.passengerId))
    /\ Len(StaffLogs) = 3
    /\ GrantedEntryFor(StaffLogs[1], last.passengerId, "security")
    /\ GrantedEntryFor(StaffLogs[2], last.passengerId, "immigration")
    /\ GrantedEntryFor(StaffLogs[3], last.passengerId, "boarding")
    /\ Len(findPassengersByBiometrics(localStorage, last.args.faceHash, Undefined)) = 1

(***************************************************************************)
(* C20: no two stored records share an id, whatever sequence of            *)
(* enrollments, grants, deletions and sweeps has run; savePassengerData    *)
(* with a record whose id is stored replaces that record at its position   *)
(* and changes neither the number of records nor another record (the       *)
(* grant), and with a new id appends exactly one record (the enrollment).  *)
(***************************************************************************)
UniqueIds(passengers) ==
    \A i, j \in 1..Len(passengers) : passengers[i].id = passengers[j].id => i = j

EnrollStep == last'.op = "enroll"

GrantStep == VerifyStep /\ last'.message = "GRANTED"

C20_PutReplacesOrAppends ==
    [][/\ UniqueIds(getAllPassengers(localStorage'))
       /\ EnrollStep =>
             /\ ~IsStored(localStorage, last'.passengerId)
             /\ Len(getAllPassengers(localStorage')) = Len(Passengers) + 1
             /\ SubSeq(getAllPassengers(localStorage'), 1, Len(Passengers)) = Passengers
             /\ getAllPassengers(localStorage')[Len(Passengers) + 1].id = last'.passengerId
       /\ GrantStep =>
             LET existingIndex == FindIndexById(Passengers, last'.passengerId)
             IN  /\ existingIndex > 0
                 /\ Len(getAllPassengers(localStorage')) = Len(Passengers)
                 /\ getAllPassengers(localStorage')[existingIndex].id = last'.passengerId
                 /\ \A i \in 1..Len(Passengers) :
                       i /= existingIndex
                           => getAllPassengers(localStorage')[i] = Passengers[i]]_vars

\* a grant has replaced the second of two records in place
C20_Witness ==
    /\ last.op = "verify"
    /\ last.message = "GRANTED"
    /\ Len(Passengers) = 2
    /\ Passengers[2].id = last.passengerId
    /\ Passengers[2].checkpoints[last.args.checkpoint]
    /\ Passengers[1].id /= Passengers[2].id

(***************************************************************************)
(* C21: deletePassengerData returns false and leaves the stored records    *)
(* unchanged when no record has the given id, and returns true and removes *)
(* exactly that record when one has.                                       *)
(* The function filters, writes and returns true without looking whether   *)
(* the id was there; false is returned only from the catch block.          *)
(***************************************************************************)
DeleteCall == last'.op = "delete"

C23_EnrollAddsOneRecord ==
    [][EnrollStep =>
          LET stored == getAllPassengers(localStorage')
              added == stored[Len(stored)]
          IN  /\ Len(stored) = Len(Passengers) + 1
              /\ SubSeq(stored, 1, Len(Passengers)) = Passengers
              /\ added.id = last'.passengerId
              /\ \A i \in 1..Len(Passengers) : Passengers[i].id /= added.id
              /\ \A c \in Checkpoints : ~added.checkpoints[c]]_vars

\* a second passenger has been enrolled behind one who has cleared security
C23_Witness ==
    /\ last.op = "enroll"
    /\ Len(Passengers) = 2
    /\ Passengers[2].id = last.passengerId
    /\ Passengers[1].checkpoints.security
    /\ \A c \in Checkpoints : ~Passengers[2].checkpoints[c]

(***************************************************************************)
(* C24: enrollment does not deduplicate by passport: an enrollment with a  *)
(* passport number already stored leaves the earlier record in place and   *)
(* adds a second one with another id; a later grant to one record of a     *)
(* passport leaves the checkpoint flags of the other unchanged; and        *)
(* getPassengerByPassport returns the earlier-stored of the two.           *)
(***************************************************************************)
SamePassport(p, q) == p.passportNumber = q.passportNumber

C24_NoDeduplicationByPassport ==
    [][LET stored == getAllPassengers(localStorage')
       IN  /\ EnrollStep =>
                 \A i \in 1..Len(Passengers) :
                     SamePassport(Passengers[i], stored[Len(stored)]) =>
                         /\ stored[i] = Passengers[i]
                         /\ stored[i].id /= stored[Len(stored)].id
                         /\ Len(stored) = Len(Passengers) + 1
           /\ GrantStep =>
                 \A i \in 1..Len(Passengers) :
                     (/\ SamePassport(Passengers[i], Selected)
                      /\ Passengers[i].id /= last'.passengerId) =>
                         stored[i].checkpoints = Passengers[i].checkpoints
           /\ \A j \in 1..Len(stored) :
                 LET found == getPassengerByPassport(localStorage',
                                                     stored[j].passportNumber)
                 IN  /\ Len(found) = 1
                     /\ SamePassport(found[1], stored[j])
                     /\ (\E i \in 1..(j - 1) : SamePassport(stored[i], stored[j]))
                            => found[1].id /= stored[j].id]_vars

\* two records share a passport number and the later-stored one has just
\* been granted security, the earlier one being still uncleared
C24_Witness ==
    /\ Len(Passengers) = 2
    /\ SamePassport(Passengers[1], Passengers[2])
    /\ Passengers[1].id /= Passengers[2].id
    /\ last.op = "verify"
    /\ last.message = "GRANTED"
    /\ last.passengerId = Passengers[2].id
    /\ Passengers[2].checkpoints.security
    /\ ~Passengers[1].checkpoints.security
    /\ getPassengerByPassport(localStorage, Passengers[2].passportNumber)
           = <<Passengers[1]>>

(***************************************************************************)
(* C25: findPassengersByBiometrics(faceHash, fingerprintHash?) returns     *)
(* exactly the stored records whose faceHash equals the given hash and,    *)
(* when a fingerprintHash is supplied, whose fingerprintHash equals it     *)
(* too, in the order of the store; no record with another faceHash is      *)
(* returned.                                                               *)
(***************************************************************************)
\* the record matches the hashes presented
MatchesBiometrics(p, faceHash, fingerprintHash) ==
    /\ p.biometrics.faceHash = faceHash
    /\ fingerprintHash /= Undefined => p.biometrics.fingerprintHash = fingerprintHash

C25_FindByBiometricsExact ==
    \A faceHash \in PresentedFaceHashes, fingerprintHash \in PresentedFingerprints :
        LET found == findPassengersByBiometrics(Open(localStorage), faceHash,
                                                fingerprintHash)
            matching == {i \in 1..Len(Passengers) :
                            MatchesBiometrics(Passengers[i], faceHash, fingerprintHash)}
            \* the place in the result of the i-th stored record
            Rank(i) == Cardinality({j \in matching : j <= i})
        IN  /\ Len(found) = Cardinality(matching)
            /\ \A i \in matching : found[Rank(i)] = Passengers[i]
            /\ \A k \in 1..Len(found) : found[k].biometrics.faceHash = faceHash

\* a verification presented a face hash and a fingerprint: of the two stored
\* records with that face hash only the first has the fingerprint, and a
\* lookup by the face hash alone returns both in the order of the store
C25_Witness ==
    /\ last.op = "verify"
    /\ last.args.fingerprintHash /= Undefined
    /\ Len(Passengers) = 2
    /\ Passengers[2].biometrics.faceHash = last.args.faceHash
    /\ findPassengersByBiometrics(Open(localStorage), last.args.faceHash,
                                  last.args.fingerprintHash) = <<Passengers[1]>>
    /\ findPassengersByBiometrics(Open(localStorage), last.args.faceHash, Undefined)
           = Passengers

(***************************************************************************)
(* C26: the access log is append-only: every operation other than          *)
(* clear-all (verify, enroll, sweep, delete of a passenger) leaves the     *)
(* entries of the log present, unmodified and in order, so that the log    *)
(* before is a prefix of the log after; deleting or sweeping a passenger   *)
(* keeps the entries that reference it.                                    *)
(***************************************************************************)
IsPrefix(s, t) == Len(s) <= Len(t) /\ SubSeq(t, 1, Len(s)) = s

C26_LogAppendOnly ==
    [][last'.op /= "clearAll" => IsPrefix(StaffLogs, getStaffLogs(localStorage'))]_vars

\* a passenger has just been deleted or swept and the log still holds an
\* entry of that passenger, behind an earlier entry
C26_Witness ==
    /\ last.op \in {"delete", "cleanup"}
    /\ Len(StaffLogs) >= 2
    /\ ~IsStored(localStorage, StaffLogs[Len(StaffLogs)].passengerId)

(***************************************************************************)
(* C27: calculateFaceSimilarity returns 0 whenever either vector has zero  *)
(* norm (all components zero, or both vectors empty); it never returns NaN *)
(* or an infinite value.                                                   *)
(***************************************************************************)
SimilarityCall == last.op = "similarity"

ZeroNorm(v) == \A i \in 1..Len(v) : v[i] = 0

\* the number returned is finite: not NaN, and no division by 0
IsFinite(sim) == ~sim.nan /\ sim.nn > 0

C27_ZeroNormGivesZero ==
    SimilarityCall =>
        /\ IsFinite(last.similarity[1])
        /\ (ZeroNorm(last.args.embedding1) \/ ZeroNorm(last.args.embedding2))
               => SimEQ(last.similarity[1], SimZero)

(***************************************************************************)
(* C28: calculateFaceSimilarity returns 0 whenever the two vectors have    *)
(* different lengths, for all vectors.                                     *)
(***************************************************************************)
C28_LengthMismatchGivesZero ==
    (/\ SimilarityCall
     /\ Len(last.args.embedding1) /= Len(last.args.embedding2))
        => /\ IsFinite(last.similarity[1])
           /\ SimEQ(last.similarity[1], SimZero)

\* called with two non-zero vectors that agree on their common prefix and
\* differ in length
C28_Witness ==
    /\ SimilarityCall
    /\ last.args.embedding1 = <<1>>
    /\ last.args.embedding2 = <<1, 0>>
    /\ SimEQ(last.similarity[1], SimZero)

(***************************************************************************)
(* C29: the recent entries of the log are at most `limit` entries, the     *)
(* most recently appended ones (among the entries with a timestamp after   *)
(* sinceTimestamp, when one is given), ordered most-recent-first.  The     *)
(* dashboard reads them twice: its Access Logs list (limit 50, no          *)
(* sinceTimestamp) and stats.recentActivity (limit 10, since an hour ago). *)
(***************************************************************************)
C29_RecentMostRecentFirst ==
    last.op = "refresh" =>
        LET After(log) == log.timestamp > now - OneHour
            eligible == SelectSeq(StaffLogs, After)
            MostRecentFirst(entries, limit, shown) ==
                /\ Len(shown) <= limit
                /\ Len(shown) = IF Len(entries) < limit THEN Len(entries) ELSE limit
                /\ \A k \in 1..Len(shown) : shown[k] = entries[Len(entries) - k + 1]
        IN  /\ MostRecentFirst(StaffLogs, LatestLogs, last.view.logs)
            /\ MostRecentFirst(eligible, RecentActivityCount,
                               last.view.stats.recentActivity)

(***************************************************************************)
(* C30: every verify call returns exactly one of the five outcomes         *)
(* NO_MATCH, FLIGHT_DEPARTED, PREREQUISITE_MISSING, ALREADY_CLEARED,       *)
(* GRANTED, for every checkpoint, every presented hash and embedding and   *)
(* every store content: the call made last did, and in every state the     *)
(* call with any input would.  The outcome is one: it reports success      *)
(* exactly when it is ALREADY_CLEARED or GRANTED and names no passenger    *)
(* exactly when it is NO_MATCH.                                            *)
(***************************************************************************)
Outcomes ==
    {"NO_MATCH", "FLIGHT_DEPARTED", "PREREQUISITE_MISSING", "ALREADY_CLEARED", "GRANTED"}

C30_VerifyReturnsOneOutcome ==
    /\ last.op = "verify" =>
          /\ last.message \in Outcomes
          /\ last.success <=> last.message \in {"ALREADY_CLEARED", "GRANTED"}
          /\ last.passengerId = NoId <=> last.message = "NO_MATCH"
    /\ \A cp \in Checkpoints, fh \in PresentedFaceHashes, e \in PresentedEmbeddings,
          fp \in PresentedFingerprints :
          \A r \in {processVerification(Open(localStorage), cp, fh, e, fp, now,
                                        Len(StaffLogs) + 1).result} :
              /\ r.message \in Outcomes
              /\ r.success <=> r.message \in {"ALREADY_CLEARED", "GRANTED"}
              /\ Len(r.passenger) = 0 <=> r.message = "NO_MATCH"

\* a verification of a passenger whose records are stored twice was denied
\* at boarding for a missing prerequisite
C30_Witness ==
    /\ last.op = "verify"
    /\ last.message = "PREREQUISITE_MISSING"
    /\ last.args.checkpoint = "boarding"
    /\ Len(Passengers) = 2
    /\ ~last.success

(***************************************************************************)
(* C31: under any interleaving of verify calls for the same passenger id   *)
(* from tabs that share the store, each getItem and each setItem being one *)
(* step, the checkpoint flags stay monotonic and boarding = true implies   *)
(* security = true and immigration = true: a grant that writes back the    *)
(* record it read earlier never clears a flag set in between, and a        *)
(* boarding grant never lands on a record whose immigration flag is false. *)
(***************************************************************************)
PrecedenceHolds(p) ==
    p.checkpoints.boarding => p.checkpoints.security /\ p.checkpoints.immigration

\* one passenger has been enrolled and is stored: every verification in
\* progress is for its id
OnePassengerVerified ==
    /\ enrollments = 1
    /\ Len(Passengers) = 1
    /\ \A t \in Tabs : tabs[t].op /= "enroll"

C31_FlagsMonotonicUnderInterleaving ==
    [][\A i \in 1..Len(Passengers) :
          (OnePassengerVerified /\ IsStored(localStorage', Passengers[i].id)) =>
              /\ \A c \in Checkpoints :
                    Passengers[i].checkpoints[c]
                        => Stored(localStorage', Passengers[i].id).checkpoints[c]
              /\ PrecedenceHolds(Stored(localStorage', Passengers[i].id))]_vars

(***************************************************************************)
(* C32: a grant for one passenger id and a grant or an enrollment for      *)
(* another id that run concurrently in tabs sharing the store do not lose  *)
(* each other's writes: the setItem of a grant leaves every stored record  *)
(* of another id stored and as it is, and the setItem of a grant or an     *)
(* enrollment leaves every granted record of another id so, so that the    *)
(* store holds the effects of both operations.                             *)
(***************************************************************************)
\* tab t makes the setItem of savePassengerData in this step
SaveWriteBy(t) == tabs[t].pc = "write" /\ tabs'[t] /= tabs[t]

C32_OtherIdsKeepTheirWrites ==
    [][\A t \in Tabs :
          SaveWriteBy(t) =>
              \A i \in 1..Len(Passengers) :
                  (/\ Passengers[i].id /= tabs[t].passenger[1].id
                   /\ \/ tabs[t].op = "verify"
                      \/ \E c \in Checkpoints : Passengers[i].checkpoints[c]) =>
                      /\ IsStored(localStorage', Passengers[i].id)
                      /\ Stored(localStorage', Passengers[i].id) = Passengers[i]]_vars

(***************************************************************************)
(* C33: in every state reachable by enroll, verify, sweep and delete       *)
(* executed one at a time, every stored record with                        *)
(* checkpoints.immigration = true has checkpoints.security = true.         *)
(***************************************************************************)
C33_ImmigrationImpliesSecurity ==
    \A i \in 1..Len(Passengers) :
        Passengers[i].checkpoints.immigration => Passengers[i].checkpoints.security

\* an immigration grant has just been written, and an immigration scan of
\* the other stored passenger, who has not cleared security, would be refused
C33_Witness ==
    /\ last.op = "verify"
    /\ last.message = "GRANTED"
    /\ last.args.checkpoint = "immigration"
    /\ Len(Passengers) = 2
    /\ Stored(localStorage, last.passengerId).checkpoints.immigration
    /\ \E i \in 1..2 :
          /\ ~Passengers[i].checkpoints.security
          /\ PrerequisiteMissing("immigration", Passengers[i])

(***************************************************************************)
(* C34: audit-trail completeness: in every state reachable by enroll,      *)
(* verify, sweep, delete and clear-all executed one at a time, for every   *)
(* stored record and every checkpoint whose flag is true the access log    *)
(* holds a granted entry with the id of the record and that checkpoint.    *)
(***************************************************************************)
C34_GrantsAreLogged ==
    \A i \in 1..Len(Passengers) :
        \A c \in Checkpoints :
            Passengers[i].checkpoints[c] =>
                \E k \in 1..Len(StaffLogs) :
                    GrantedEntryFor(StaffLogs[k], Passengers[i].id, c)

\* the passenger enrolled second is the only one stored and has just been
\* granted security, which the only entry of the log records
C34_Witness ==
    /\ last.op = "verify"
    /\ last.message = "GRANTED"
    /\ enrollments = 2
    /\ Len(Passengers) = 1
    /\ Passengers[1].id = last.passengerId
    /\ Passengers[1].id = generatePassengerId(PassengerUuids[2])
    /\ Passengers[1].checkpoints.security
    /\ Len(StaffLogs) = 1
    /\ StaffLogs[1].id = 1

(***************************************************************************)
(* C35: sweep and verify agree on expiry: at one and the same instant, a   *)
(* record is removed by the sweep if and only if a verification that       *)
(* selects it returns FLIGHT_DEPARTED; a record whose departureTime is     *)
(* empty or no date is departed for both.                                  *)
(***************************************************************************)
\* the sweep run now would remove the record with this id
SweepRemoves(id) ==
    /\ IsStored(localStorage, id)
    /\ ~IsStored(Items(cleanupExpiredPassengers(Open(localStorage), now).ls), id)

C35_SweepAndVerifyAgree ==
    [][/\ VerifyStepWithMatch =>
             /\ last'.message = "FLIGHT_DEPARTED" <=> SweepRemoves(last'.passengerId)
             /\ Len(Selected.departureTime) = 0 => last'.message = "FLIGHT_DEPARTED"
       /\ SweepStep =>
             \A i \in 1..Len(Passengers) :
                 ~IsStored(localStorage', Passengers[i].id)
                     <=> ~isFlightValid(Passengers[i].departureTime, now)]_vars

\* a verification has answered FLIGHT_DEPARTED for a record without a
\* departure date, which the sweep would remove while it keeps the other
\* stored record
C35_Witness ==
    /\ last.op = "verify"
    /\ last.message = "FLIGHT_DEPARTED"
    /\ IsStored(localStorage, last.passengerId)
    /\ Len(Stored(localStorage, last.passengerId).departureTime) = 0
    /\ SweepRemoves(last.passengerId)
    /\ Len(Passengers) = 2
    /\ \E i \in 1..2 : ~SweepRemoves(Passengers[i].id)

(***************************************************************************)
(* C36: the similarity a verification reports in its result, and in the    *)
(* notes of the log entry of a grant, is the similarity between the        *)
(* presented embedding and the stored embedding of the record selected,    *)
(* for every candidate list; for a record without an embedding it is 0.    *)
(***************************************************************************)
\* the similarity of the record selected
ActualSimilarity == IF StoresEmbedding(Selected) THEN SimilarityOf(Selected) ELSE SimZero

BothCaptured(station) == Len(station.faceData) = 1 /\ Len(station.fingerprintHash) = 1

C37_CompleteOnlyWithBothCaptures ==
    [][/\ tabs'[KioskTab].currentStep = "complete" => BothCaptured(tabs'[KioskTab])
       /\ localStorage' /= localStorage =>
             LET stored == getAllPassengers(localStorage')
                 biometrics == stored[Len(stored)].biometrics
             IN  /\ BothCaptured(Station)
                 /\ Len(stored) = Len(Passengers) + 1
                 /\ biometrics.faceHash = Station.faceData[1].hash
                 /\ biometrics.faceEmbedding = <<Station.faceData[1].embedding>>
                 /\ biometrics.fingerprintHash = Station.fingerprintHash[1]]_vars

\* the second passenger is at the step 'complete' with both captures, after
\* the first has been enrolled through the wizard
C37_Witness ==
    /\ Station.pc = "station"
    /\ Station.currentStep = "complete"
    /\ BothCaptured(Station)
    /\ ~Station.isProcessing
    /\ Len(Passengers) = 1
    /\ last.op = "enroll"
    /\ last.success

====
